---- MODULE Spec2Model ----
(***************************************************************************)
(* Model of src/src/client.py: the client-side query session of the        *)
(* clickhouse driver.  One Client talks to one Connection (the transport). *)
(* The caller invokes execute, execute_with_progress, cancel, and advances *)
(* or drains the ProgressQueryResult it was handed.  Every transport call  *)
(* is one step; the packet the transport hands back is chosen by the       *)
(* server, so it is drawn nondeterministically at each read.               *)
(***************************************************************************)
EXTENDS Integers, Sequences, FiniteSets, TLC

VARIABLES
    pc,        \* where the running call stands ("idle": no call is running)
    call,      \* the arguments of the running (or last) call
    settings,  \* Client.settings, the base settings
    context,   \* connection.context.settings
    log,       \* the transport calls made by the running (or last) call
    result,    \* the QueryResult of the running (or last) eager drain
    it,        \* the ProgressQueryResult the caller holds (None before one exists)
    outcome,   \* how the last call ended: returned value or raised error
    insert_block_size,  \* connection.context.client_settings['insert_block_size']
    sample_block,       \* process_insert_query: the sample block received
    chunk,     \* send_data: index of the next chunk to send
    nreads     \* Connection.receive_packet() calls made so far

vars ==
    <<pc, call, settings, context, log, result, it, outcome,
      insert_block_size, sample_block, chunk, nreads>>

----------------------------------------------------------------------------
(* Bounds of the model. *)

MaxReads == 3
MaxRows == 3
MaxBlockSize == 2

----------------------------------------------------------------------------
(* Python values. *)

None == <<>>
Some(v) == <<v>>

Min(a, b) == IF a < b THEN a ELSE b

Last(s) == s[Len(s)]

----------------------------------------------------------------------------
(* Blocks: columns_with_types plus rows, kept row-major here. *)

Block(cwt, d) == [columns_with_types |-> cwt, data |-> d]

rows(block) == Len(block.data)

get_rows(block) == block.data

get_columns(block) ==
    [i \in 1..Len(block.data[1]) |->
        [j \in 1..Len(block.data) |-> block.data[j][i]]]

EmptyBlock == Block(<<>>, <<>>)
HeaderA == Block(<<"x", "y">>, <<>>)
HeaderB == Block(<<"u", "v">>, <<>>)
Block1 == Block(<<"x", "y">>, << <<1, 2>> >>)
Block2 == Block(<<"x", "y">>, << <<3, 4>>, <<5, 6>> >>)
BlockT == Block(<<"x", "y">>, << <<7, 8>> >>)

----------------------------------------------------------------------------
(* Packets, as Connection.receive_packet() hands them over. *)

Packet(t, b, p, e) ==
    [type |-> t, block |-> b, progress |-> p, exception |-> e]

Progress(r, b, t) == [rows |-> r, bytes |-> b, total_rows |-> t]

DataPacket(b) == Packet("DATA", Some(b), None, None)
TotalsPacket(b) == Packet("TOTALS", Some(b), None, None)
ExtremesPacket(b) == Packet("EXTREMES", Some(b), None, None)
ProgressPacket(p) == Packet("PROGRESS", None, Some(p), None)
EndOfStream == Packet("END_OF_STREAM", None, None, None)
ExceptionPacket(e) == Packet("EXCEPTION", None, None, Some(e))
ProfileInfo == Packet("PROFILE_INFO", None, None, None)

ServerExceptions == {"ServerException42", "ServerException60"}

Packets ==
    {DataPacket(b) : b \in {EmptyBlock, HeaderA, HeaderB, Block1}}
    \cup {TotalsPacket(BlockT), ExtremesPacket(Block2)}
    \cup {ProgressPacket(Progress(1, 10, 3))}
    \cup {ExceptionPacket(e) : e \in ServerExceptions}
    \cup {EndOfStream, ProfileInfo}

----------------------------------------------------------------------------
(* Settings: a mapping from keys to values, 0 standing for "key absent". *)

SettingKeys == {"max_threads", "max_block_size"}

BaseSettings == [k \in SettingKeys |-> IF k = "max_threads" THEN 1 ELSE 0]

NoSettings == [kind |-> "None", map |-> [k \in SettingKeys |-> 0]]
OverrideSettings ==
    [kind |-> "dict", map |-> [k \in SettingKeys |-> IF k = "max_threads" THEN 2 ELSE 0]]
BadSettings == [kind |-> "int", map |-> [k \in SettingKeys |-> 0]]

SettingsArgs == {NoSettings, OverrideSettings, BadSettings}

\* dict.copy() followed by dict.update(other)
update(base, other) == [k \in SettingKeys |-> IF other[k] # 0 THEN other[k] ELSE base[k]]

----------------------------------------------------------------------------
(* The transport log. *)

Entry(name, arg, ok) == [call |-> name, arg |-> arg, ok |-> ok]

Calls(l) == [i \in 1..Len(l) |-> l[i].call]

Disconnects(n) == [i \in 1..n |-> Entry("disconnect", None, TRUE)]

----------------------------------------------------------------------------
(* QueryResult and ProgressQueryResult.  generator is the state of the     *)
(* packet_generator() object the accumulator owns: "open" while it can     *)
(* still run, "finished" once it returned after END_OF_STREAM, "raised"    *)
(* once an exception left it; a Python generator in either of the last two *)
(* states never runs its body again.  seen, surfaced and yields are the    *)
(* history of the packets this generator read, of the packets it yielded   *)
(* to its consumer, and of the values next() returned.                      *)

QueryResult(wct, col) ==
    [with_column_types |-> wct,
     columnar |-> col,
     data |-> <<>>,
     columns_with_types |-> <<>>,
     generator |-> "open",
     seen |-> <<>>,
     surfaced |-> <<>>]

ProgressQueryResult(wct, col) ==
    [with_column_types |-> wct,
     columnar |-> col,
     data |-> <<>>,
     columns_with_types |-> <<>>,
     progress_totals |-> Progress(0, 0, 0),
     generator |-> "open",
     seen |-> <<>>,
     surfaced |-> <<>>,
     yields |-> <<>>]

\* store extending the aggregate with the columns of every block
store_extending(self, packet) ==
    IF packet.block = None THEN self
    ELSE LET block == packet.block[1] IN
         IF rows(block) > 0
         THEN IF self.columnar
              THEN [self EXCEPT !.data = self.data \o get_columns(block)]
              ELSE [self EXCEPT !.data = self.data \o get_rows(block)]
         ELSE IF self.columns_with_types = <<>>
              THEN [self EXCEPT !.columns_with_types = block.columns_with_types]
              ELSE self

\* store taking the columns of every block without rows
store_last_header(self, packet) ==
    IF packet.block = None THEN self
    ELSE LET block == packet.block[1] IN
         IF rows(block) > 0
         THEN IF self.columnar
              THEN LET columns == get_columns(block) IN
                   IF self.data # <<>>
                   THEN [self EXCEPT !.data =
                            [i \in 1..Len(self.data) |-> self.data[i] \o columns[i]]]
                   ELSE [self EXCEPT !.data = self.data \o columns]
              ELSE [self EXCEPT !.data = self.data \o get_rows(block)]
         ELSE [self EXCEPT !.columns_with_types = block.columns_with_types]

\* QueryResult.store
store(self, packet) ==
    IF packet.block = None THEN self
    ELSE LET block == packet.block[1] IN
         IF rows(block) > 0
         THEN IF self.columnar
              THEN LET columns == get_columns(block) IN
                   IF self.data # <<>>
                   THEN [self EXCEPT !.data =
                            [i \in 1..Len(self.data) |->
                                IF i <= Len(columns)
                                THEN self.data[i] \o columns[i]
                                ELSE self.data[i]]]
                   ELSE [self EXCEPT !.data = self.data \o columns]
              ELSE [self EXCEPT !.data = self.data \o get_rows(block)]
         ELSE IF self.columns_with_types = <<>>
              THEN [self EXCEPT !.columns_with_types = block.columns_with_types]
              ELSE self

\* store_progress assigning instead of adding
store_progress_assigning(totals, progress_packet) ==
    Progress(progress_packet.rows, progress_packet.bytes, progress_packet.total_rows)

\* ProgressQueryResult.store_progress: the totals after adding one packet
store_progress(totals, progress_packet) ==
    Progress(totals.rows + progress_packet.rows,
             totals.bytes + progress_packet.bytes,
             totals.total_rows + progress_packet.total_rows)

\* get_result handing over the data alone, whatever with_column_types is
get_result_value_bare(self) == <<self.data>>

\* the tail of QueryResult.get_result: what the caller is handed.  A bare
\* data is written as the 1-tuple <<data>>.
get_result_value(self) ==
    IF self.with_column_types
    THEN <<self.data, self.columns_with_types>>
    ELSE <<self.data>>

\* receive_packet without its TOTALS branch
receive_packet_dropping_totals(packet) ==
    CASE packet.type = "EXCEPTION" -> "raise"
      [] packet.type = "PROGRESS" -> "packet"
      [] packet.type = "END_OF_STREAM" -> "False"
      [] packet.type = "DATA" -> "packet"
      [] packet.type = "EXTREMES" -> "packet"
      [] OTHER -> "True"

\* Client.receive_packet: "raise", the packet itself ("packet"), False or True
receive_packet(packet) ==
    CASE packet.type = "EXCEPTION" -> "raise"
      [] packet.type = "PROGRESS" -> "packet"
      [] packet.type = "END_OF_STREAM" -> "False"
      [] packet.type = "DATA" -> "packet"
      [] packet.type = "TOTALS" -> "packet"
      [] packet.type = "EXTREMES" -> "packet"
      [] OTHER -> "True"

\* a generator that could be resumed after it finished
exhausted_never(self) == FALSE

\* a finished generator raises StopIteration at once, without running its body
exhausted(self) == self.generator # "open"

----------------------------------------------------------------------------
(* How calls end. *)

NoOutcome == [kind |-> "running", value |-> None, exc |-> "None"]
Return(value) == [kind |-> "return", value |-> value, exc |-> "None"]
Raise(exc) == [kind |-> "raise", value |-> None, exc |-> exc]
StopIteration == [kind |-> "StopIteration", value |-> None, exc |-> "None"]

\* execute without its except clause
handlers_none(op) == IF op = "execute_with_progress" THEN 1 ELSE 0

\* the except clauses with connection.disconnect() an error passes on its way
\* out of the body of the call: one in execute and in execute_with_progress
handlers(op) == IF op \in {"execute", "execute_with_progress"} THEN 1 ELSE 0

Call(name, p, s, wct, col) ==
    [op |-> name, params |-> p, settings |-> s,
     with_column_types |-> wct, columnar |-> col]

NoParams == [kind |-> "None", data |-> <<>>]
DictParams == [kind |-> "dict", data |-> <<>>]
StrParams == [kind |-> "str", data |-> <<>>]
ListParams(n) == [kind |-> "list", data |-> [i \in 1..n |-> <<i, i>>]]

\* The argument tuples <<params, settings, with_column_types, columnar>> the
\* caller passes: every shape of params, every shape of settings, both
\* result shapes.  A tuple is treated by the code exactly like a list.
QueryArgs ==
    {<<NoParams, NoSettings, FALSE, FALSE>>,
     <<DictParams, OverrideSettings, TRUE, TRUE>>,
     <<StrParams, NoSettings, FALSE, FALSE>>,
     <<NoParams, BadSettings, FALSE, FALSE>>}

InsertArgs == {<<ListParams(n), NoSettings, FALSE, FALSE>> : n \in 0..MaxRows}

ExecuteArgs == QueryArgs \cup InsertArgs

\* the values of insert_block_size a Client is constructed with: with up
\* to MaxRows rows it gives inserts of no chunk, of full chunks only and of
\* full chunks followed by a shorter one
BlockSizes == {MaxBlockSize}

ExecuteWithProgressArgs ==
    {<<NoParams, NoSettings, FALSE, FALSE>>,
     <<DictParams, OverrideSettings, TRUE, FALSE>>,
     <<StrParams, NoSettings, FALSE, FALSE>>,
     <<ListParams(1), NoSettings, FALSE, FALSE>>,
     <<NoParams, BadSettings, FALSE, FALSE>>}

\* isinstance(params, (list, tuple))
is_insert(c) == c.op = "execute" /\ c.params.kind = "list"

\* substitute_params without its isinstance check
is_dict_any(params) == TRUE

\* isinstance(params, dict)
is_dict(params) == params.kind = "dict"

\* receive_sample_block without its EXCEPTION branch
sample_block_of_unexpected(packet) ==
    IF packet.type = "DATA"
    THEN [raises |-> "None", block |-> packet.block]
    ELSE [raises |-> "UnexpectedPacketFromServerError", block |-> None]

\* receive_sample_block on the packet read: the block, the embedded
\* exception, or the unexpected-packet error
sample_block_of(packet) ==
    IF packet.type = "DATA"
    THEN [raises |-> "None", block |-> packet.block]
    ELSE IF packet.type = "EXCEPTION"
         THEN [raises |-> packet.exception[1], block |-> None]
         ELSE [raises |-> "UnexpectedPacketFromServerError", block |-> None]

\* send_data building each block with the rows of the chunk in reverse
data_block_reversed(sample, parts, k) ==
    Block(sample.columns_with_types,
          [r \in 1..Len(parts[k]) |-> parts[k][Len(parts[k]) + 1 - r]])

\* the block send_data builds from one chunk
data_block(sample, parts, k) == Block(sample.columns_with_types, parts[k])


\* next dropping the packets that are no progress packets
next_turn_dropping(self, packet) ==
    IF packet.progress # None
    THEN LET totals == store_progress(self.progress_totals, packet.progress[1])
             value == <<totals.rows, totals.total_rows>>
         IN  [self |-> [self EXCEPT !.progress_totals = totals,
                                    !.yields = Append(@, value)],
              returned |-> Some(value)]
    ELSE [self |-> self, returned |-> None]

\* next going round its loop after a progress packet as well
next_turn_draining(self, packet) ==
    IF packet.progress # None
    THEN LET totals == store_progress(self.progress_totals, packet.progress[1])
             value == <<totals.rows, totals.total_rows>>
         IN  [self |-> [self EXCEPT !.progress_totals = totals,
                                    !.yields = Append(@, value)],
              returned |-> None]
    ELSE [self |-> store(self, packet), returned |-> None]

\* one turn of the loop of ProgressQueryResult.next on a packet the
\* generator yielded: the accumulator afterwards, and the value returned
\* (None when the loop goes round again)
next_turn(self, packet) ==
    IF packet.progress # None
    THEN LET totals == store_progress(self.progress_totals, packet.progress[1])
             value == <<totals.rows, totals.total_rows>>
         IN  [self |-> [self EXCEPT !.progress_totals = totals,
                                    !.yields = Append(@, value)],
              returned |-> Some(value)]
    ELSE [self |-> store(self, packet), returned |-> None]

\* util.helpers.chunks: consecutive slices of at most n rows
chunks(seq, n) ==
    [k \in 1..((Len(seq) + n - 1) \div n) |->
        SubSeq(seq, (k - 1) * n + 1, Min(k * n, Len(seq)))]

----------------------------------------------------------------------------
(* The state after Client(...) was constructed. *)

Init ==
    /\ pc = "idle"
    /\ call = Call("none", NoParams, NoSettings, FALSE, FALSE)
    /\ settings = BaseSettings
    /\ context = BaseSettings
    /\ log = <<>>
    /\ result = None
    /\ it = None
    /\ outcome = NoOutcome
    /\ insert_block_size \in BlockSizes
    /\ sample_block = None
    /\ chunk = 1
    /\ nreads = 0

\* a caller-level call begins
Begin(c) ==
    /\ pc = "idle"
    /\ call' = c
    /\ log' = <<>>
    /\ result' = None
    /\ sample_block' = None
    /\ chunk' = 1

\* an error leaves the running call: the transport calls made on the way
\* out are n disconnects
Fails(entries, exc, n) ==
    /\ log' = log \o entries \o Disconnects(n)
    /\ outcome' = Raise(exc)
    /\ pc' = "idle"

Goes(entries, next_pc) ==
    /\ log' = log \o entries
    /\ outcome' = outcome
    /\ pc' = next_pc

Returns(entries, value) ==
    /\ log' = log \o entries
    /\ outcome' = value
    /\ pc' = "idle"

----------------------------------------------------------------------------
(* execute and execute_with_progress up to force_connect. *)

\* the settings merge updating the settings of the previous call in place
merge_settings_retaining(s) ==
    IF s.kind \in {"None", "dict"}
    THEN /\ context' = update(context, s.map)
         /\ outcome' = NoOutcome
         /\ pc' = "force_connect"
    ELSE /\ context' = context
         /\ outcome' = Raise("TypeError")
         /\ pc' = "idle"

\* the settings merge and the context assignment that open both calls
merge_settings(s) ==
    IF s.kind \in {"None", "dict"}
    THEN /\ context' = update(settings, s.map)
         /\ outcome' = NoOutcome
         /\ pc' = "force_connect"
    ELSE /\ context' = context
         /\ outcome' = Raise("TypeError")
         /\ pc' = "idle"

execute ==
    /\ \E a \in ExecuteArgs :
          /\ Begin(Call("execute", a[1], a[2], a[3], a[4]))
          /\ merge_settings(a[2])
    /\ UNCHANGED <<settings, it, insert_block_size, nreads>>

execute_with_progress ==
    /\ \E a \in ExecuteWithProgressArgs :
          /\ Begin(Call("execute_with_progress", a[1], a[2], a[3], FALSE))
          /\ merge_settings(a[2])
    /\ UNCHANGED <<settings, it, insert_block_size, nreads>>

force_connect ==
    /\ pc = "force_connect"
    /\ \/ Goes(<<Entry("force_connect", None, TRUE)>>,
               IF is_insert(call) \/ call.params.kind = "None"
               THEN "send_query" ELSE "substitute_params")
       \/ Fails(<<Entry("force_connect", None, FALSE)>>, "TransportError", 0)
    /\ UNCHANGED <<call, settings, context, result, it, insert_block_size,
                   sample_block, chunk, nreads>>

substitute_params ==
    /\ pc = "substitute_params"
    /\ IF ~is_dict(call.params)
       THEN Fails(<<>>, "ValueError", handlers(call.op))
       ELSE Goes(<<>>, "send_query")
    /\ UNCHANGED <<call, settings, context, result, it, insert_block_size,
                   sample_block, chunk, nreads>>

\* process_insert_query without its send_external_tables call
send_query_skipping_tables ==
    /\ pc = "send_query"
    /\ \/ Goes(<<Entry("send_query", Some(context), TRUE)>>,
               IF is_insert(call) THEN "receive_sample_block" ELSE "send_external_tables")
       \/ Fails(<<Entry("send_query", Some(context), FALSE)>>, "TransportError",
                handlers(call.op))
    /\ UNCHANGED <<call, settings, context, result, it, insert_block_size,
                   sample_block, chunk, nreads>>

send_query ==
    /\ pc = "send_query"
    /\ \/ Goes(<<Entry("send_query", Some(context), TRUE)>>, "send_external_tables")
       \/ Fails(<<Entry("send_query", Some(context), FALSE)>>, "TransportError",
                handlers(call.op))
    /\ UNCHANGED <<call, settings, context, result, it, insert_block_size,
                   sample_block, chunk, nreads>>

\* send_external_tables, and on the query paths receive_result up to the
\* construction of the accumulator
send_external_tables ==
    /\ pc = "send_external_tables"
    /\ \/ /\ is_insert(call)
          /\ Goes(<<Entry("send_external_tables", None, TRUE)>>, "receive_sample_block")
          /\ UNCHANGED <<result, it>>
       \/ /\ ~is_insert(call)
          /\ call.op = "execute"
          /\ Goes(<<Entry("send_external_tables", None, TRUE)>>, "packet_generator")
          /\ result' = Some(QueryResult(call.with_column_types, call.columnar))
          /\ it' = it
       \/ /\ call.op = "execute_with_progress"
          /\ Returns(<<Entry("send_external_tables", None, TRUE)>>, Return(None))
          /\ it' = Some(ProgressQueryResult(call.with_column_types, call.columnar))
          /\ result' = result
       \/ /\ Fails(<<Entry("send_external_tables", None, FALSE)>>, "TransportError",
                   handlers(call.op))
          /\ UNCHANGED <<result, it>>
    /\ UNCHANGED <<call, settings, context, insert_block_size,
                   sample_block, chunk, nreads>>

----------------------------------------------------------------------------
(* The packet stream and its three consumers: QueryResult.get_result (in   *)
(* execute and cancel), ProgressQueryResult.next and                        *)
(* ProgressQueryResult.get_result.                                          *)

eager == call.op \in {"execute", "cancel"}

Put(self) ==
    IF eager
    THEN result' = Some(self) /\ it' = it
    ELSE it' = Some(self) /\ result' = result

\* one Connection.receive_packet() made by packet_generator, and what the
\* consumer that drives the generator does with its outcome
packet_generator ==
    /\ pc = "packet_generator"
    /\ nreads < MaxReads
    /\ nreads' = nreads + 1
    /\ LET self == IF eager THEN result[1] ELSE it[1]
           disconnects == 1 + handlers(call.op)
       IN
       \/ /\ Fails(<<Entry("receive_packet", None, FALSE)>>, "TransportError", disconnects)
          /\ Put([self EXCEPT !.generator = "raised"])
       \/ \E packet \in Packets :
            LET read == [self EXCEPT !.seen = Append(@, packet)]
                yielded == [read EXCEPT !.surfaced = Append(@, packet)]
                entry == <<Entry("receive_packet", Some(packet), TRUE)>>
                r == receive_packet(packet)
            IN
            \/ /\ r = "raise"
               /\ Fails(entry, packet.exception[1], disconnects)
               /\ Put([read EXCEPT !.generator = "raised"])
            \/ /\ r = "False"
               /\ LET done == [read EXCEPT !.generator = "finished"] IN
                  /\ Put(done)
                  /\ Returns(entry, IF call.op = "next" THEN StopIteration
                                    ELSE Return(get_result_value(done)))
            \/ /\ r = "True"
               /\ Goes(entry, pc)
               /\ Put(read)
            \/ /\ r = "packet"
               /\ eager
               /\ Goes(entry, pc)
               /\ Put(store(yielded, packet))
            \/ /\ r = "packet"
               /\ ~eager
               /\ LET turn == next_turn(yielded, packet) IN
                  /\ Put(turn.self)
                  /\ IF call.op = "next" /\ turn.returned # None
                     THEN Returns(entry, Return(turn.returned[1]))
                     ELSE Goes(entry, pc)
    /\ UNCHANGED <<call, settings, context, insert_block_size,
                   sample_block, chunk>>

\* the caller advances the iterator: next(prog_result)
next ==
    /\ it # None
    /\ Begin(Call("next", NoParams, NoSettings, it[1].with_column_types, it[1].columnar))
    /\ IF exhausted(it[1])
       THEN outcome' = StopIteration /\ pc' = "idle"
       ELSE outcome' = NoOutcome /\ pc' = "packet_generator"
    /\ UNCHANGED <<settings, context, it, insert_block_size, nreads>>

\* the caller drains the iterator: prog_result.get_result()
get_result ==
    /\ it # None
    /\ Begin(Call("get_result", NoParams, NoSettings, it[1].with_column_types,
                  it[1].columnar))
    /\ IF exhausted(it[1])
       THEN outcome' = Return(get_result_value(it[1])) /\ pc' = "idle"
       ELSE outcome' = NoOutcome /\ pc' = "packet_generator"
    /\ UNCHANGED <<settings, context, it, insert_block_size, nreads>>

cancel ==
    /\ \E with_column_types \in BOOLEAN :
          Begin(Call("cancel", NoParams, NoSettings, with_column_types, FALSE))
    /\ outcome' = NoOutcome
    /\ pc' = "send_cancel"
    /\ UNCHANGED <<settings, context, it, insert_block_size, nreads>>

send_cancel ==
    /\ pc = "send_cancel"
    /\ \/ /\ Goes(<<Entry("send_cancel", None, TRUE)>>, "packet_generator")
          /\ result' = Some(QueryResult(call.with_column_types, call.columnar))
       \/ /\ Fails(<<Entry("send_cancel", None, FALSE)>>, "TransportError",
                   handlers(call.op))
          /\ result' = result
    /\ UNCHANGED <<call, settings, context, it, insert_block_size,
                   sample_block, chunk, nreads>>

----------------------------------------------------------------------------
(* The insert path. *)

receive_sample_block ==
    /\ pc = "receive_sample_block"
    /\ nreads < MaxReads
    /\ nreads' = nreads + 1
    /\ \/ /\ Fails(<<Entry("receive_packet", None, FALSE)>>, "TransportError",
                   handlers(call.op))
          /\ sample_block' = sample_block
       \/ \E packet \in Packets :
            LET entry == <<Entry("receive_packet", Some(packet), TRUE)>>
                got == sample_block_of(packet)
            IN
            /\ sample_block' = got.block
            /\ IF got.raises # "None"
               THEN Fails(entry, got.raises, handlers(call.op))
               ELSE IF got.block # None
                    THEN Goes(entry, "send_data")
                    ELSE Returns(entry, Return(None))
    /\ UNCHANGED <<call, settings, context, result, it, insert_block_size,
                   chunk>>

\* send_data with the empty block sent in a finally clause
send_data_finally ==
    /\ pc = "send_data"
    /\ LET parts == chunks(call.params.data, insert_block_size) IN
       IF chunk <= Len(parts)
       THEN LET block == data_block(sample_block[1], parts, chunk) IN
            \/ /\ Goes(<<Entry("send_data", Some(block), TRUE)>>, pc)
               /\ chunk' = chunk + 1
            \/ /\ Fails(<<Entry("send_data", Some(EmptyBlock), TRUE)>>,
                        "TypeMismatchError", handlers(call.op))
               /\ chunk' = chunk
            \/ /\ Fails(<<Entry("send_data", Some(block), FALSE),
                          Entry("send_data", Some(EmptyBlock), TRUE)>>,
                        "TransportError", handlers(call.op))
               /\ chunk' = chunk
       ELSE /\ chunk' = chunk
            /\ \/ Goes(<<Entry("send_data", Some(EmptyBlock), TRUE)>>, "receive_ack")
               \/ Fails(<<Entry("send_data", Some(EmptyBlock), FALSE)>>, "TransportError",
                        handlers(call.op))
    /\ UNCHANGED <<call, settings, context, result, it, insert_block_size,
                   sample_block, nreads>>

\* one turn of the loop of send_data, or the empty block after the loop
send_data ==
    /\ pc = "send_data"
    /\ LET parts == chunks(call.params.data, insert_block_size) IN
       IF chunk <= Len(parts)
       THEN LET block == data_block(sample_block[1], parts, chunk) IN
            \/ /\ Goes(<<Entry("send_data", Some(block), TRUE)>>, pc)
               /\ chunk' = chunk + 1
            \/ /\ Fails(<<>>, "TypeMismatchError", handlers(call.op))
               /\ chunk' = chunk
            \/ /\ Fails(<<Entry("send_data", Some(block), FALSE)>>, "TransportError",
                        handlers(call.op))
               /\ chunk' = chunk
       ELSE /\ chunk' = chunk
            /\ \/ Goes(<<Entry("send_data", Some(EmptyBlock), TRUE)>>, "receive_ack")
               \/ Fails(<<Entry("send_data", Some(EmptyBlock), FALSE)>>, "TransportError",
                        handlers(call.op))
    /\ UNCHANGED <<call, settings, context, result, it, insert_block_size,
                   sample_block, nreads>>

\* process_insert_query without the test of packet.exception
receive_ack_ignoring ==
    /\ pc = "receive_ack"
    /\ nreads < MaxReads
    /\ nreads' = nreads + 1
    /\ \/ Fails(<<Entry("receive_packet", None, FALSE)>>, "TransportError",
                handlers(call.op))
       \/ \E packet \in Packets :
            Returns(<<Entry("receive_packet", Some(packet), TRUE)>>, Return(None))
    /\ UNCHANGED <<call, settings, context, result, it, insert_block_size,
                   sample_block, chunk>>

\* the read that follows send_data in process_insert_query
receive_ack ==
    /\ pc = "receive_ack"
    /\ nreads < MaxReads
    /\ nreads' = nreads + 1
    /\ \/ Fails(<<Entry("receive_packet", None, FALSE)>>, "TransportError",
                handlers(call.op))
       \/ \E packet \in Packets :
            LET entry == <<Entry("receive_packet", Some(packet), TRUE)>> IN
            IF packet.exception # None
            THEN Fails(entry, packet.exception[1], handlers(call.op))
            ELSE Returns(entry, Return(None))
    /\ UNCHANGED <<call, settings, context, result, it, insert_block_size,
                   sample_block, chunk>>

----------------------------------------------------------------------------

Next ==
    \/ execute
    \/ execute_with_progress
    \/ force_connect
    \/ substitute_params
    \/ send_query
    \/ send_external_tables
    \/ packet_generator
    \/ next
    \/ get_result
    \/ cancel
    \/ send_cancel
    \/ receive_sample_block
    \/ send_data
    \/ receive_ack

Spec == Init /\ [][Next]_vars

----------------------------------------------------------------------------
(* Reading the log and the accumulators. *)

Receives(l) == SelectSeq(l, LAMBDA e : e.call = "receive_packet")

Writes(l) == SelectSeq(l, LAMBDA e : e.call = "send_data" /\ e.ok)

NumDisconnects(l) == Len(SelectSeq(l, LAMBDA e : e.call = "disconnect"))

\* the packets of a stream that packet_generator hands to its consumer
Surfaced(seen) == SelectSeq(seen, LAMBDA p : receive_packet(p) = "packet")

\* the loop of QueryResult.get_result over the packets handed to it
RECURSIVE store_all(_, _)
store_all(self, packets) ==
    IF packets = <<>> THEN self
    ELSE store_all(store(self, Head(packets)), Tail(packets))

\* the accumulators that exist in this state
Accumulators == {result[i] : i \in DOMAIN result} \cup {it[i] : i \in DOMAIN it}

\* the log holds the read of an Exception packet, at index i
ExceptionAt(i) ==
    /\ log[i].call = "receive_packet"
    /\ log[i].ok
    /\ log[i].arg[1].type = "EXCEPTION"

\* a call on a query path, of one of the three consumers, ended by an
\* Exception packet
ExceptionEnded ==
    /\ pc = "idle"
    /\ call.op \in {"execute", "next", "get_result", "cancel"}
    /\ ~is_insert(call)
    /\ \E i \in DOMAIN log : ExceptionAt(i)

----------------------------------------------------------------------------
\* C1 (as stated): an Exception packet anywhere in the stream stops the
\* call at that packet with no further read, disconnect() is called exactly
\* once, and the error raised is the one embedded in the packet.
C1_ExactlyOneDisconnect ==
    ExceptionEnded =>
        \A i \in DOMAIN log : ExceptionAt(i) =>
            /\ \A j \in (i + 1)..Len(log) : log[j].call = "disconnect"
            /\ NumDisconnects(log) = 1
            /\ outcome = Raise(log[i].arg[1].exception[1])

\* C1 (amended): an Exception packet anywhere in the stream stops the call
\* at that packet with no further read and the error raised is the one
\* embedded in the packet; disconnect() is called once when the iterator is
\* advanced or drained and in cancel, and twice in execute (by the packet
\* stream and again by execute), always before the error reaches the caller.
C1_DisconnectsThenRaises ==
    ExceptionEnded =>
        \A i \in DOMAIN log : ExceptionAt(i) =>
            /\ \A j \in (i + 1)..Len(log) : log[j].call = "disconnect"
            /\ NumDisconnects(log) = (IF call.op = "execute" THEN 2 ELSE 1)
            /\ outcome = Raise(log[i].arg[1].exception[1])

C1_Witness ==
    /\ ExceptionEnded
    /\ call.op = "execute"
    /\ Len(Receives(log)) = 3
    /\ result[1].data # <<>>

\* C2 (as stated): whenever execute raises, on either path, disconnect()
\* was called before the error reached the caller.
C2_DisconnectOnAnyError ==
    (pc = "idle" /\ call.op = "execute" /\ outcome.kind = "raise") =>
        NumDisconnects(log) >= 1


\* send_data has returned: the insert stands at its acknowledgement read or
\* has made it
SendDataReturned ==
    /\ is_insert(call)
    /\ pc = "receive_ack" \/ Len(Receives(log)) = 2

\* C3: send_data writes ceil(N/S) blocks of S rows, the last one holding
\* the remainder, then one empty block as its last write; the rows of the
\* blocks, in send order, are the caller's rows.
C3_InsertChunking ==
    SendDataReturned =>
        LET data == call.params.data
            N == Len(data)
            S == insert_block_size
            K == (N + S - 1) \div S
            W == Writes(log)
        IN  /\ \A i \in DOMAIN log : log[i].call = "send_data" => log[i].ok
            /\ Len(W) = K + 1
            /\ \A k \in 1..K :
                  rows(W[k].arg[1]) =
                      (IF k < K \/ N % S = 0 THEN S ELSE N % S)
            /\ W[K + 1].arg[1] = EmptyBlock
            /\ \A r \in 1..N :
                  W[((r - 1) \div S) + 1].arg[1].data[((r - 1) % S) + 1] = data[r]

C3_Witness ==
    /\ SendDataReturned
    /\ pc = "idle"
    /\ outcome.kind = "return"
    /\ Len(call.params.data) = 3
    /\ insert_block_size = 2
    /\ Len(Writes(log)) = 3

\* the first packet the insert read was not a Data packet
SampleRefused ==
    /\ pc = "idle"
    /\ is_insert(call)
    /\ Receives(log) # <<>>
    /\ Receives(log)[1].ok
    /\ Receives(log)[1].arg[1].type # "DATA"

\* C4: when the first packet of an insert is not a Data packet, execute
\* raises the embedded exception for an Exception packet and the
\* unexpected-packet error for any other kind, nothing is sent with
\* send_data and no further packet is read.
C4_SampleBlockNegotiation ==
    SampleRefused =>
        LET packet == Receives(log)[1].arg[1] IN
        /\ outcome = Raise(IF packet.type = "EXCEPTION"
                           THEN packet.exception[1]
                           ELSE "UnexpectedPacketFromServerError")
        /\ \A i \in DOMAIN log : log[i].call # "send_data"
        /\ Len(Receives(log)) = 1

C4_Witness ==
    /\ SampleRefused
    /\ Receives(log)[1].arg[1].type = "EXCEPTION"
    /\ outcome = Raise("ServerException60")


\* what the other accumulation mode makes of the packets self was handed
OtherMode(self) ==
    store_all(QueryResult(self.with_column_types, ~self.columnar), Surfaced(self.seen))

\* col, read as column i / position j, is field i of row j of row
Transposed(col, row) ==
    /\ (row = <<>>) <=> (col = <<>>)
    /\ row # <<>> =>
          /\ \A j \in DOMAIN row : Len(row[j]) = Len(col)
          /\ \A i \in DOMAIN col :
                /\ Len(col[i]) = Len(row)
                /\ \A j \in DOMAIN row : col[i][j] = row[j][i]

\* C5: over the same packets the column-major result is the transpose of
\* the row-major result, rows in arrival order.
C5_ColumnarIsTranspose ==
    \A self \in Accumulators :
        IF self.columnar
        THEN Transposed(self.data, OtherMode(self).data)
        ELSE Transposed(OtherMode(self).data, self.data)

C5_Witness ==
    /\ pc = "idle"
    /\ call.op = "execute"
    /\ outcome.kind = "return"
    /\ result # None
    /\ result[1].columnar
    /\ result[1].data = << <<1, 3, 5>>, <<2, 4, 6>> >>
    /\ outcome.value[1] = result[1].data

\* the blocks without rows among the packets self was handed, in order
HeaderBlocks(self) ==
    LET with_block == SelectSeq(Surfaced(self.seen),
                                LAMBDA p : p.block # None /\ rows(p.block[1]) = 0)
    IN  [i \in DOMAIN with_block |-> with_block[i].block[1]]

\* C6 (as stated): once a block without rows was stored, columns_with_types
\* is that of the first such block, whatever its schema.
C6_FirstHeaderWins ==
    \A self \in Accumulators :
        HeaderBlocks(self) # <<>> =>
            self.columns_with_types = HeaderBlocks(self)[1].columns_with_types

\* C6 (amended): columns_with_types is that of the first block without rows
\* whose columns_with_types is not empty, and is empty while there was none:
\* no later block changes it, a block with rows never changes it, and a
\* block without rows and without columns captures nothing.
C6_FirstNonEmptyHeaderWins ==
    \A self \in Accumulators :
        LET named == SelectSeq(HeaderBlocks(self),
                               LAMBDA b : b.columns_with_types # <<>>)
        IN  self.columns_with_types =
                (IF named = <<>> THEN <<>> ELSE named[1].columns_with_types)

C6_Witness ==
    /\ result # None
    /\ HeaderBlocks(result[1]) = <<HeaderA, HeaderB, EmptyBlock>>
    /\ result[1].columns_with_types = HeaderA.columns_with_types

\* the progress packets self read, in order
ProgressOf(self) ==
    LET ps == SelectSeq(self.seen, LAMBDA p : p.type = "PROGRESS")
    IN  [i \in DOMAIN ps |-> ps[i].progress[1]]

RECURSIVE SumRows(_, _)
SumRows(ps, k) == IF k = 0 THEN 0 ELSE ps[k].rows + SumRows(ps, k - 1)

RECURSIVE SumBytes(_, _)
SumBytes(ps, k) == IF k = 0 THEN 0 ELSE ps[k].bytes + SumBytes(ps, k - 1)

RECURSIVE SumTotalRows(_, _)
SumTotalRows(ps, k) == IF k = 0 THEN 0 ELSE ps[k].total_rows + SumTotalRows(ps, k - 1)

\* C7: the iterator yields one pair per progress packet, the k-th being the
\* sums of rows and of total_rows over the first k progress packets, and
\* progress_totals holds the sums over all of them; nothing else is yielded.
C7_ProgressAdditive ==
    \A i \in DOMAIN it :
        LET self == it[i]
            ps == ProgressOf(self)
        IN  /\ Len(self.yields) = Len(ps)
            /\ \A k \in DOMAIN ps :
                  self.yields[k] = <<SumRows(ps, k), SumTotalRows(ps, k)>>
            /\ self.progress_totals =
                  Progress(SumRows(ps, Len(ps)), SumBytes(ps, Len(ps)),
                           SumTotalRows(ps, Len(ps)))
            /\ (pc = "idle" /\ call.op = "next" /\ outcome.kind = "return") =>
                  /\ ps # <<>>
                  /\ outcome.value = Last(self.yields)
                  /\ Last(self.seen).type = "PROGRESS"

C7_Witness ==
    /\ it # None
    /\ it[1].generator = "finished"
    /\ it[1].yields = << <<1, 3>>, <<2, 6>> >>
    /\ it[1].progress_totals = Progress(2, 20, 6)


\* C8: END_OF_STREAM ends a packet stream for good: nothing is read by that
\* stream after it, also when the exhausted iterator is advanced or drained
\* again, and the consumer ends without an error: execute, cancel and
\* get_result return the result, next signals the end of the iteration.
C8_EndOfStreamTerminates ==
    /\ \A self \in Accumulators :
          /\ \A i \in 1..(Len(self.seen) - 1) : self.seen[i].type # "END_OF_STREAM"
          /\ (self.seen # <<>> /\ Last(self.seen).type = "END_OF_STREAM")
                => self.generator = "finished"
    /\ \A i \in DOMAIN result :
          (pc = "idle" /\ result[i].generator = "finished")
              => outcome = Return(get_result_value(result[i]))
    /\ \A i \in DOMAIN it :
          (pc = "idle" /\ it[i].generator = "finished") =>
              /\ call.op = "get_result" => outcome = Return(get_result_value(it[i]))
              /\ call.op = "next" => outcome = StopIteration
              /\ call.op \in {"next", "get_result"} =>
                    \/ log = <<>>
                    \/ /\ Last(log).call = "receive_packet"
                       /\ Last(log).ok
                       /\ Last(log).arg[1].type = "END_OF_STREAM"

C8_Witness ==
    /\ pc = "idle"
    /\ call.op = "get_result"
    /\ it # None
    /\ it[1].generator = "finished"
    /\ Len(it[1].seen) = 2
    /\ log = <<>>
    /\ outcome = Return(get_result_value(it[1]))

\* a query path was handed params that are neither None nor a mapping
NonMappingParams ==
    /\ call.op \in {"execute", "execute_with_progress"}
    /\ ~is_insert(call)
    /\ call.params.kind \notin {"None", "dict"}

NetworkCalls == {"force_connect", "send_query", "send_external_tables", "receive_packet"}

\* C9 (as stated): when params that are no mapping make a query path fail
\* with the invalid-argument error, no network I/O has occurred before it:
\* no force_connect, no send_query, no send_external_tables, no receive.
C9_FailsBeforeAnyIO ==
    (pc = "idle" /\ NonMappingParams /\ outcome = Raise("ValueError")) =>
        \A i \in DOMAIN log : log[i].call \notin NetworkCalls

\* C9 (amended): params that are no mapping make a query path fail with the
\* invalid-argument error right after force_connect and before any other
\* transport call: no send_query, no send_external_tables and no receive
\* happens, and the connection is disconnected before the error is raised;
\* when force_connect itself fails, its error is raised instead.
C9_FailsAfterForceConnect ==
    NonMappingParams =>
        /\ \A i \in DOMAIN log :
              log[i].call \notin {"send_query", "send_external_tables", "receive_packet"}
        /\ (pc = "idle" /\ call.settings.kind # "int") =>
              \/ /\ outcome = Raise("ValueError")
                 /\ Calls(log) = <<"force_connect", "disconnect">>
                 /\ log[1].ok
              \/ /\ outcome = Raise("TransportError")
                 /\ Calls(log) = <<"force_connect">>
                 /\ ~log[1].ok

C9_Witness ==
    /\ pc = "idle"
    /\ call.op = "execute_with_progress"
    /\ call.params.kind = "list"
    /\ outcome = Raise("ValueError")
    /\ Calls(log) = <<"force_connect", "disconnect">>

\* QueryResult.get_result over the packets self was handed, with the flags
\* of self
Eager(self) ==
    store_all(QueryResult(self.with_column_types, self.columnar), Surfaced(self.seen))

\* C10: over an exception-free stream that ends in END_OF_STREAM,
\* ProgressQueryResult.get_result returns, after any number of advances,
\* the data and the columns_with_types QueryResult.get_result returns over
\* the same stream with the same flags.
C10_ProgressAgreesWithEager ==
    /\ \A i \in DOMAIN it :
          (pc = "idle" /\ call.op = "get_result" /\ it[i].generator = "finished") =>
              /\ it[i].data = Eager(it[i]).data
              /\ it[i].columns_with_types = Eager(it[i]).columns_with_types
              /\ outcome = Return(get_result_value(Eager(it[i])))
    /\ \A i \in DOMAIN result :
          (pc = "idle" /\ result[i].generator = "finished") =>
              /\ result[i].data = Eager(result[i]).data
              /\ result[i].columns_with_types = Eager(result[i]).columns_with_types
              /\ outcome = Return(get_result_value(Eager(result[i])))

\* get_result after one advance that read a progress packet, then a header
\* and a block with rows
C10_Witness ==
    /\ pc = "idle"
    /\ call.op = "get_result"
    /\ it # None
    /\ it[1].generator = "finished"
    /\ it[1].with_column_types
    /\ Len(Receives(log)) < Len(it[1].seen)
    /\ it[1].yields # <<>>
    /\ it[1].data # <<>>
    /\ outcome = Return(<<it[1].data, it[1].columns_with_types>>)

----------------------------------------------------------------------------
\* the packets the running (or last) call read, in order
PacketsRead ==
    LET rs == SelectSeq(log, LAMBDA e : e.call = "receive_packet" /\ e.ok)
    IN  [i \in DOMAIN rs |-> rs[i].arg[1]]

\* the rows of the Data, Totals and Extremes blocks among packets, in order
RECURSIVE RowsOf(_)
RowsOf(packets) ==
    IF packets = <<>> THEN <<>>
    ELSE (IF Head(packets).type \in {"DATA", "TOTALS", "EXTREMES"}
          THEN Head(packets).block[1].data
          ELSE <<>>) \o RowsOf(Tail(packets))

\* a read in the log that ends a packet stream: a failed read, an Exception
\* packet or END_OF_STREAM
EndsStream(e) ==
    /\ e.call = "receive_packet"
    /\ \/ ~e.ok
       \/ e.arg[1].type \in {"EXCEPTION", "END_OF_STREAM"}

\* C11: cancel writes the cancel message first and then reads: the message
\* alone never ends the read loop, cancel returns only after END_OF_STREAM
\* was read, and what it returns holds, row-major and in arrival order, the
\* rows of every Data, Totals and Extremes block read after the message.
C11_CancelDrains ==
    call.op = "cancel" =>
        /\ log # <<>> => log[1].call = "send_cancel"
        /\ \A i \in 2..Len(log) : log[i].call \in {"receive_packet", "disconnect"}
        /\ (log # <<>> /\ log[1].ok /\ \A i \in DOMAIN log : ~EndsStream(log[i]))
              => pc = "packet_generator"
        /\ (pc = "idle" /\ outcome.kind = "return") =>
              /\ Last(log).call = "receive_packet"
              /\ Last(log).ok
              /\ Last(log).arg[1].type = "END_OF_STREAM"
              /\ ~result[1].columnar
              /\ outcome.value[1] = RowsOf(PacketsRead)
              /\ Len(outcome.value) = (IF call.with_column_types THEN 2 ELSE 1)

C11_Witness ==
    /\ call.op = "cancel"
    /\ call.with_column_types
    /\ pc = "idle"
    /\ PacketsRead = <<DataPacket(Block1), TotalsPacket(BlockT), EndOfStream>>
    /\ outcome = Return(<< << <<1, 2>>, <<7, 8>> >>, <<>> >>)

\* C12 (as stated): once a transport error or an Exception packet was raised
\* out of an advance or a drain of the iterator, no later call on that
\* accumulator returns data: get_result() does not hand over the rows and
\* the header merged before the failure.
C12_PartialResultsDiscarded ==
    \A i \in DOMAIN it :
        (/\ pc = "idle"
         /\ call.op \in {"next", "get_result"}
         /\ it[i].generator = "raised"
         /\ outcome.kind = "return") =>
            \A k \in DOMAIN outcome.value : outcome.value[k] = <<>>

\* C13 (as stated): whenever cancel or execute_with_progress raises an error
\* of send_cancel, force_connect, send_query, send_external_tables or of the
\* parameter substitution, disconnect() was called before the error reached
\* the caller.  (The TypeError of the settings merge is not among them.)
C13_SetupErrorsDisconnect ==
    (/\ pc = "idle"
     /\ call.op \in {"cancel", "execute_with_progress"}
     /\ outcome.kind = "raise"
     /\ outcome.exc # "TypeError") =>
        NumDisconnects(log) >= 1

SurfacedTypes == {"DATA", "PROGRESS", "TOTALS", "EXTREMES"}

\* the running call drives a packet stream
DrivesStream ==
    /\ call.op \in {"execute", "cancel", "next", "get_result"}
    /\ ~is_insert(call)

\* C14: a packet stream yields exactly the Data, Progress, Totals and
\* Extremes packets it read, each once and in arrival order, all of them
\* before END_OF_STREAM; a packet of another kind is read without being
\* yielded and the stream goes on; an Exception packet is never yielded.
C14_StreamSurfaces ==
    /\ \A self \in Accumulators :
          /\ self.surfaced = SelectSeq(self.seen, LAMBDA p : p.type \in SurfacedTypes)
          /\ \A i \in DOMAIN self.surfaced : self.surfaced[i].type # "EXCEPTION"
          /\ \A i \in 1..(Len(self.seen) - 1) :
                self.seen[i].type \notin {"END_OF_STREAM", "EXCEPTION"}
    /\ (/\ DrivesStream
        /\ log # <<>>
        /\ Last(log).call = "receive_packet"
        /\ Last(log).ok
        /\ Last(log).arg[1].type \notin SurfacedTypes \cup {"END_OF_STREAM", "EXCEPTION"}) =>
              /\ pc = "packet_generator"
              /\ \A self \in (IF eager THEN {result[1]} ELSE {it[1]}) :
                    /\ self.generator = "open"
                    /\ Last(self.seen) = Last(log).arg[1]

C14_Witness ==
    /\ it # None
    /\ it[1].generator = "finished"
    /\ it[1].seen = <<ProfileInfo, ProgressPacket(Progress(1, 10, 3)), EndOfStream>>
    /\ it[1].surfaced = <<ProgressPacket(Progress(1, 10, 3))>>

\* the insert returned without an error
InsertSucceeded ==
    /\ is_insert(call)
    /\ pc = "idle"
    /\ outcome.kind = "return"

\* entry e is a send_data of the empty block
IsSentinel(e) == e.call = "send_data" /\ e.arg[1] = EmptyBlock

\* C15: a successful insert makes, after the force_connect of execute,
\* exactly the transport calls send_query, send_external_tables, one read
\* (the sample block), ceil(N/S) send_data with blocks that hold rows, one
\* send_data with the empty block and one read (the acknowledgement); in
\* every insert no block is sent before the sample block was read, nothing
\* is sent after the empty block, and at most two packets are read.
C15_InsertProtocolOrder ==
    is_insert(call) =>
        /\ \A i \in DOMAIN log :
              log[i].call = "send_data" =>
                  /\ \E j \in 1..(i - 1) :
                        /\ log[j].call = "receive_packet"
                        /\ log[j].ok
                        /\ log[j].arg[1].type = "DATA"
                  /\ \A j \in 1..(i - 1) : ~IsSentinel(log[j])
        /\ Len(Receives(log)) <= 2
        /\ InsertSucceeded =>
              LET N == Len(call.params.data)
                  S == insert_block_size
                  K == (N + S - 1) \div S
              IN  /\ \A i \in DOMAIN log : log[i].ok
                  /\ Calls(log) =
                        <<"force_connect", "send_query", "send_external_tables",
                          "receive_packet">>
                        \o [k \in 1..(K + 1) |-> "send_data"]
                        \o <<"receive_packet">>
                  /\ \A k \in 1..K : rows(log[4 + k].arg[1]) > 0
                  /\ IsSentinel(log[4 + K + 1])
                  /\ Len(Receives(log)) = 2

C15_Witness ==
    /\ InsertSucceeded
    /\ insert_block_size = 2
    /\ Len(call.params.data) = 3
    /\ Calls(log) = <<"force_connect", "send_query", "send_external_tables",
                      "receive_packet", "send_data", "send_data", "send_data",
                      "receive_packet">>

\* the insert has read its second packet, the acknowledgement
AckRead ==
    /\ is_insert(call)
    /\ Len(Receives(log)) = 2
    /\ Receives(log)[2].ok

\* C16: the insert reads its final packet right after the empty block was
\* sent; when that packet carries an exception, execute disconnects and
\* raises that exception; for a packet of any other kind execute returns
\* None, without an error and without a disconnect.
C16_InsertAcknowledgement ==
    /\ pc = "receive_ack" => (IsSentinel(Last(log)) /\ Last(log).ok)
    /\ AckRead =>
          LET packet == Receives(log)[2].arg[1]
              at == CHOOSE i \in DOMAIN log :
                        /\ log[i].call = "receive_packet"
                        /\ \E j \in 1..(i - 1) : log[j].call = "receive_packet"
          IN  /\ pc = "idle"
              /\ IsSentinel(log[at - 1])
              /\ IF packet.type = "EXCEPTION"
                 THEN /\ outcome = Raise(packet.exception[1])
                      /\ SubSeq(Calls(log), at + 1, Len(log)) = <<"disconnect">>
                 ELSE /\ outcome = Return(None)
                      /\ at = Len(log)
                      /\ NumDisconnects(log) = 0

C16_Witness ==
    /\ AckRead
    /\ Receives(log)[2].arg[1] = ExceptionPacket("ServerException42")
    /\ outcome = Raise("ServerException42")
    /\ Last(log).call = "disconnect"

\* the stream of an earlier execute_with_progress is still open: its
\* iterator has neither read END_OF_STREAM nor failed, and the running call
\* is another operation
EarlierStreamOpen ==
    /\ it # None
    /\ it[1].generator = "open"
    /\ call.op \in {"execute", "execute_with_progress"}
    /\ ~(call.op = "execute_with_progress" /\ pc = "idle" /\ outcome.kind = "return")

\* C17 (as stated, its clause on query messages): whatever the caller does
\* with one Client, no query message is written while the stream of an
\* earlier operation has not yet reached END_OF_STREAM or failed.
C17_StrictlySequenced ==
    EarlierStreamOpen =>
        \A i \in DOMAIN log : ~(log[i].call = "send_query" /\ log[i].ok)

\* C18: the settings every send_query of execute and execute_with_progress
\* carries are the base settings overridden by the settings argument of
\* that very call, key by key; the base settings never change, so an
\* override of one call is not seen by the next.
C18_SettingsNotRetained ==
    /\ settings = BaseSettings
    /\ call.op \in {"execute", "execute_with_progress"} =>
          \A i \in DOMAIN log :
              log[i].call = "send_query" =>
                  \A k \in SettingKeys :
                      log[i].arg[1][k] =
                          (IF call.settings.map[k] # 0
                           THEN call.settings.map[k]
                           ELSE BaseSettings[k])

\* a query without settings of its own, sent after the call with an override
\* that created the iterator
C18_Witness ==
    /\ it # None
    /\ it[1].with_column_types
    /\ call.op = "execute"
    /\ call.settings = NoSettings
    /\ \E i \in DOMAIN log :
          /\ log[i].call = "send_query"
          /\ log[i].arg = Some(BaseSettings)
          /\ log[i].arg # Some(update(BaseSettings, OverrideSettings.map))

\* a read in the log at which an advance of the iterator stops
StopsAdvance(e) ==
    /\ e.call = "receive_packet"
    /\ \/ ~e.ok
       \/ e.arg[1].type \in {"PROGRESS", "END_OF_STREAM", "EXCEPTION"}

\* C19: execute_with_progress reads nothing: it returns after force_connect,
\* send_query and send_external_tables, in this order, with an iterator that
\* has read no packet, and never raises a server exception; an advance of
\* the iterator reads on until, and no further than, the first Progress
\* packet, END_OF_STREAM or failure.
C19_LazyProgress ==
    /\ call.op = "execute_with_progress" =>
          /\ \A i \in DOMAIN log : log[i].call # "receive_packet"
          /\ outcome.exc \notin ServerExceptions
          /\ (pc = "idle" /\ outcome.kind = "return") =>
                /\ Calls(log) = <<"force_connect", "send_query", "send_external_tables">>
                /\ \A i \in DOMAIN log : log[i].ok
                /\ it # None
                /\ it[1].seen = <<>>
                /\ it[1].generator = "open"
    /\ call.op = "next" =>
          /\ \A i \in DOMAIN log :
                /\ log[i].call \in {"receive_packet", "disconnect"}
                /\ StopsAdvance(log[i]) =>
                      /\ pc = "idle"
                      /\ \A j \in (i + 1)..Len(log) : log[j].call = "disconnect"
          /\ (pc = "idle" /\ log # <<>>) => \E i \in DOMAIN log : StopsAdvance(log[i])
          /\ (pc = "idle" /\ log = <<>>) => outcome = StopIteration

C19_Witness ==
    /\ call.op = "next"
    /\ pc = "idle"
    /\ PacketsRead = <<DataPacket(Block1), ExceptionPacket("ServerException42")>>
    /\ outcome = Raise("ServerException42")
    /\ it[1].seen = PacketsRead

\* the insert failed while it built or sent the block of a chunk
DataBlockFailed ==
    /\ is_insert(call)
    /\ pc = "idle"
    /\ \/ outcome = Raise("TypeMismatchError")
       \/ \E i \in DOMAIN log :
             /\ log[i].call = "send_data"
             /\ ~log[i].ok
             /\ rows(log[i].arg[1]) > 0

\* C20: when building or sending the block of chunk j fails, the blocks of
\* the chunks 1..j-1, and no other block, were written, the empty block is
\* never written, the acknowledgement is never read, disconnect() is called
\* and execute raises the error of the failure.
C20_InsertFailsMidStream ==
    DataBlockFailed =>
        LET parts == chunks(call.params.data, insert_block_size)
            W == Writes(log)
            j == Len(W) + 1
            sends == SelectSeq(log, LAMBDA e : e.call = "send_data")
        IN  /\ j = chunk
            /\ j <= Len(parts)
            /\ \A k \in 1..(j - 1) :
                  W[k].arg[1] = Block(sample_block[1].columns_with_types, parts[k])
            /\ \A i \in DOMAIN sends : ~IsSentinel(sends[i])
            /\ Len(sends) \in {j - 1, j}
            /\ Len(Receives(log)) = 1
            /\ NumDisconnects(log) = 1
            /\ Last(log).call = "disconnect"
            /\ outcome = Raise(IF Len(sends) = j THEN "TransportError"
                               ELSE "TypeMismatchError")

\* the second of two chunks fails to be sent
C20_Witness ==
    /\ DataBlockFailed
    /\ insert_block_size = 2
    /\ Len(call.params.data) = 3
    /\ Len(Writes(log)) = 1
    /\ outcome = Raise("TransportError")
    /\ Calls(log) = <<"force_connect", "send_query", "send_external_tables",
                      "receive_packet", "send_data", "send_data", "disconnect">>

====
